---- MODULE Spec2Model ----
(***************************************************************************)
(* The bandwidth database (bwdb) of gobwmon: an in-memory live ring and a  *)
(* four-bucket key/value store (min, hour, day, mon) behind one mutex.     *)
(*                                                                         *)
(* Time.  A time.Time is an integer count of ticks since the zero time     *)
(* (January 1, year 1, 00:00 UTC).  The calendar is Go's with its periods  *)
(* shortened to the bounds below (every month has DaysPerMonth days); all  *)
(* times are formatted in one location.  Byte counts are naturals: the     *)
(* uint64 sums of the engine never come near 2^64 in the runs checked.     *)
(*                                                                         *)
(* Store.  A bolt bucket is a function from keys to encoded values; the    *)
(* store is a function from the names of the buckets that exist to their   *)
(* contents.  A Batch either commits the transaction or, on a storage      *)
(* error, leaves the store as it was.  Bucket.ForEach visits the keys in   *)
(* byte order.  The engine deletes the visited key inside ForEach, which   *)
(* bolt leaves undefined.  Over a bucket the transaction has not written,  *)
(* the cursor reads the committed page and reaches every key (TestRollover *)
(* rests on it).  Over a bucket the transaction has already written, the   *)
(* cursor reads the node the Delete shrinks and may step over the key that *)
(* follows each deleted one: such a walk is a choice between the two.      *)
(***************************************************************************)
EXTENDS Integers, Sequences, FiniteSets, TLC

VARIABLES open, hist, last, db,      \* the fields of bwdb
          op, pre,                   \* the last call and the state it started from
          pushed, committed, oosum,  \* what the calls since the last purge added
          pure, nops

VARIABLES iface,                  \* the fields of the sampler (Iface)
          got, ipre,              \* its last call and the fields it started from
          baseline                \* where it stands after a failed counter read

engineVars ==
    <<open, hist, last, db, op, pre, pushed, committed, oosum, pure, nops>>

VARIABLES liveIds, liveConsumers,  \* the fields of the live fan-out
          detached,                \* the subscribers it has removed
          svc, failed, lastCall    \* its calls so far

VARIABLES mainPc, prodPc, consPc,  \* where main and its two goroutines stand
          prodJ, consV,            \* the producer's j, the consumer's v
          ch, chClosed,            \* the data queue
          clClosed,                \* the closer channel
          tick, tkrStopped,        \* the ticker and its channel
          wg,                      \* the WaitGroup counter
          sent, added,             \* the updates queued, those given to Add
          nticks                   \* the ticks of the ticker so far

ifaceVars == <<iface, got, ipre, baseline>>

feederVars == <<liveIds, liveConsumers, detached, svc, failed, lastCall>>

mainVars ==
    <<mainPc, prodPc, consPc, prodJ, consV, ch, chClosed, clClosed, tick,
      tkrStopped, wg, sent, added, nticks>>

vars == <<engineVars, ifaceVars, feederVars, mainVars>>

\* a step of one component leaves the others as they are
EngineOnly == UNCHANGED <<ifaceVars, feederVars, mainVars>>

IfaceOnly == UNCHANGED <<engineVars, feederVars, mainVars>>

FeederOnly == UNCHANGED <<engineVars, ifaceVars, mainVars>>

MainOnly == UNCHANGED <<engineVars, ifaceVars, feederVars>>

(***************************************************************************)
(* Bounds of the model.                                                    *)
(***************************************************************************)
TicksPerMin   == 1
MinPerHour    == 2
HoursPerDay   == 2
DaysPerMonth  == 2
MonthsPerYear == 2
MaxT          == 9    \* the latest timestamp a call is given
MaxOps        == 3    \* calls made on one engine
histSize      == 2    \* liveSize handed to NewBwDb

TicksPerHour  == TicksPerMin * MinPerHour
TicksPerDay   == TicksPerHour * HoursPerDay
TicksPerMonth == TicksPerDay * DaysPerMonth
TicksPerYear  == TicksPerMonth * MonthsPerYear

(***************************************************************************)
(* time.Time: the clock components, Format and Parse over the layouts.     *)
(***************************************************************************)
zeroTime == 0

Minute(t) == (t \div TicksPerMin) % MinPerHour
Hour(t)   == (t \div TicksPerHour) % HoursPerDay
Day(t)    == ((t \div TicksPerDay) % DaysPerMonth) + 1
Month(t)  == ((t \div TicksPerMonth) % MonthsPerYear) + 1
Year(t)   == (t \div TicksPerYear) + 1

\* the layouts, as the sequence of their reference-time fields
minFmt  == <<"01", "02", "2006", "15", "04">>
hourFmt == <<"01", "02", "2006", "15">>
dayFmt  == <<"01", "02", "2006">>
monFmt  == <<"01", "2006">>

Field(t, f) ==
    CASE f = "01"   -> Month(t)
      [] f = "02"   -> Day(t)
      [] f = "2006" -> Year(t)
      [] f = "15"   -> Hour(t)
      [] f = "04"   -> Minute(t)

\* t.Format(layout): one number per field of the layout
Format(t, layout) == [i \in 1..Len(layout) |-> Field(t, layout[i])]

\* the value a label gives for field f, or the default of time.Parse
Parsed(layout, lbl, f, dflt) ==
    IF \E i \in 1..Len(layout) : layout[i] = f
    THEN lbl[CHOOSE i \in 1..Len(layout) : layout[i] = f]
    ELSE dflt

\* time.Date over the shortened calendar
Date(y, mo, d, h, mi) ==
    (y - 1) * TicksPerYear + (mo - 1) * TicksPerMonth + (d - 1) * TicksPerDay
      + h * TicksPerHour + mi * TicksPerMin

\* time.Parse(layout, lbl): fields the layout lacks take their least value
Parse(layout, lbl) ==
    Date(Parsed(layout, lbl, "2006", 1), Parsed(layout, lbl, "01", 1),
         Parsed(layout, lbl, "02", 1), Parsed(layout, lbl, "15", 0),
         Parsed(layout, lbl, "04", 0))

prevHour(ts) == Parse(hourFmt, Format(ts, hourFmt)) + TicksPerHour

prevDay(ts) == Parse(dayFmt, Format(ts, dayFmt)) + TicksPerDay

prevMon(ts) ==
    IF Month(ts) = 1
    THEN Date(Year(ts) - 1, MonthsPerYear, 1, 0, 0)
    ELSE Date(Year(ts), Month(ts) - 1, 1, 0, 0)

(***************************************************************************)
(* BWSample.                                                               *)
(***************************************************************************)
NewBwSample == [Ts |-> zeroTime, BytesUp |-> 0, BytesDown |-> 0]

\* a stricter test than the source's: a sample at ts is not after ts
AfterStrictly(s, ts) == s.Ts > ts

After(s, ts) == ~(s.Ts < ts)

SampleAdd(s, sn) ==
    [s EXCEPT !.BytesUp = @ + sn.BytesUp, !.BytesDown = @ + sn.BytesDown]

\* Time.UnixNano is an int64: the zero time lies before the year 1678 and its
\* nanosecond count wraps to an instant (in 1754) between the zero time and
\* every wall-clock time
wrapTime == 1

UnixNano(t) == IF t < wrapTime THEN wrapTime ELSE t

Encode(s) == <<UnixNano(s.Ts), s.BytesUp, s.BytesDown>>

Decode(b) == [Ts |-> b[1], BytesUp |-> b[2], BytesDown |-> b[3]]

TimeLabel(s, layout) == Format(s.Ts, layout)

(***************************************************************************)
(* The store: buckets and the primitives of the engine over them.          *)
(***************************************************************************)
bktMin  == "min"
bktHour == "hour"
bktDay  == "day"
bktMon  == "mon"

BktNames == {bktMin, bktHour, bktDay, bktMon}

EmptyBkt == [k \in {} |-> <<>>]

NoStore == [n \in {} |-> EmptyBkt]

\* byte order of two keys of one layout (fixed-width decimal fields)
KeyLess(a, b) ==
    \E i \in 1..Len(a) :
        /\ a[i] < b[i]
        /\ \A j \in 1..(i - 1) : a[j] = b[j]

FirstKey(keys) == CHOOSE k \in keys : \A o \in keys \ {k} : KeyLess(k, o)

CreateBucketIfNotExists(tx, name) ==
    IF name \in DOMAIN tx THEN tx ELSE (name :> EmptyBkt) @@ tx

BktDelete(bkt, key) == [k \in (DOMAIN bkt) \ {key} |-> bkt[k]]

BktPut(bkt, key, v) == (key :> v) @@ bkt

\* updateVal storing the new sample over the entry instead of summing
updateValOverwrite(bkt, key, s) == BktPut(bkt, key, Encode(s))

updateVal(bkt, key, s) ==
    IF key \notin DOMAIN bkt
    THEN BktPut(bkt, key, Encode(s))
    ELSE BktPut(bkt, key, Encode(SampleAdd(Decode(bkt[key]), s)))

\* the ways a ForEach that deletes the visited key gets through a bucket
Walks == {"every", "alternate"}

\* the keys such a walk visits: every key, or every other one from the first
RECURSIVE Walked(_, _)
Walked(keys, walk) ==
    IF keys = {} THEN {}
    ELSE LET k    == FirstKey(keys)
             rest == keys \ {k}
         IN  IF walk = "alternate" /\ rest # {}
             THEN {k} \cup Walked(rest \ {FirstKey(rest)}, walk)
             ELSE {k} \cup Walked(rest, walk)

\* the ForEach of sumAndShift: fold every visited value into s, s takes the
\* timestamp of each value in turn
RECURSIVE sumFold(_, _, _)
sumFold(bkt, keys, s) ==
    IF keys = {} THEN s
    ELSE LET k  == FirstKey(keys)
             sx == Decode(bkt[k])
         IN  sumFold(bkt, keys \ {k}, [SampleAdd(s, sx) EXCEPT !.Ts = sx.Ts])

\* sumAndShift that sums the source bucket without deleting its entries
sumAndShiftKeep(tx, pullBkt, putBkt, putKey, walk) ==
    LET seen == Walked(DOMAIN tx[pullBkt], walk)
        s    == sumFold(tx[pullBkt], seen, NewBwSample)
    IN  [tx EXCEPT ![putBkt] = updateVal(tx[putBkt], putKey, s)]

\* sumAndShift that deletes the visited entries and drops their sum
sumAndShiftDrop(tx, pullBkt, putBkt, putKey, walk) ==
    LET seen == Walked(DOMAIN tx[pullBkt], walk)
    IN  [tx EXCEPT ![pullBkt] = [k \in (DOMAIN tx[pullBkt]) \ seen |-> tx[pullBkt][k]]]

sumAndShift(tx, pullBkt, putBkt, putKey, walk) ==
    LET seen == Walked(DOMAIN tx[pullBkt], walk)
        s    == sumFold(tx[pullBkt], seen, NewBwSample)
    IN  [tx EXCEPT
           ![pullBkt] = [k \in (DOMAIN tx[pullBkt]) \ seen |-> tx[pullBkt][k]],
           ![putBkt]  = updateVal(tx[putBkt], putKey, s)]

\* the ForEach of shiftIfOlder over the keys of the source bucket
RECURSIVE shiftFold(_, _, _, _, _, _)
shiftFold(tx, keys, srcBktKey, dstBktKey, tcheck, keyFmt) ==
    IF keys = {} THEN tx
    ELSE LET k == FirstKey(keys)
             s == Decode(tx[srcBktKey][k])
             t == IF s.Ts < tcheck
                  THEN [tx EXCEPT
                          ![srcBktKey] = BktDelete(tx[srcBktKey], k),
                          ![dstBktKey] = updateVal(tx[dstBktKey],
                                                   Format(s.Ts, keyFmt), s)]
                  ELSE tx
         IN  shiftFold(t, keys \ {k}, srcBktKey, dstBktKey, tcheck, keyFmt)

shiftIfOlder(store, srcBktKey, dstBktKey, tcheck, keyFmt) ==
    LET tx == CreateBucketIfNotExists(
                  CreateBucketIfNotExists(store, srcBktKey), dstBktKey)
    IN  shiftFold(tx, DOMAIN tx[srcBktKey], srcBktKey, dstBktKey, tcheck, keyFmt)

(***************************************************************************)
(* The batch functions of Add and addOutOfOrder.                           *)
(***************************************************************************)
\* the function Add hands to Batch; lst is db.last when the batch runs, walk
\* the way ForEach gets through a bucket this transaction has written (the
\* hour and the day bucket, written by the rollup before theirs)
AddTx(store, s, lst, walk) ==
    LET minLbl  == TimeLabel(s, minFmt)
        hourLbl == TimeLabel(s, hourFmt)
        dayLbl  == TimeLabel(s, dayFmt)
        monLbl  == TimeLabel(s, monFmt)
        tx0 == CreateBucketIfNotExists(CreateBucketIfNotExists(
                 CreateBucketIfNotExists(CreateBucketIfNotExists(
                   store, bktMin), bktHour), bktDay), bktMon)
        \* new hour
        tx1 == IF hourLbl # Format(lst, hourFmt)
               THEN sumAndShift(tx0, bktMin, bktHour, Format(lst, hourFmt), "every")
               ELSE tx0
        \* new day
        tx2 == IF dayLbl # Format(lst, dayFmt)
               THEN sumAndShift(tx1, bktHour, bktDay, Format(lst, dayFmt), walk)
               ELSE tx1
        \* new month
        tx3 == IF monLbl # Format(lst, monFmt)
               THEN sumAndShift(tx2, bktDay, bktMon, Format(lst, monFmt), walk)
               ELSE tx2
        tx4 == [tx3 EXCEPT ![bktMin]  = updateVal(tx3[bktMin], minLbl, s)]
        tx5 == [tx4 EXCEPT ![bktHour] = updateVal(tx4[bktHour], hourLbl, s)]
        tx6 == [tx5 EXCEPT ![bktDay]  = updateVal(tx5[bktDay], dayLbl, s)]
    IN  [tx6 EXCEPT ![bktMon] = updateVal(tx6[bktMon], monLbl, s)]

\* a choice of bucket by the whole labels instead of the clock components
PickBucketByLabel(s, lst) ==
    IF Format(s.Ts, minFmt) = Format(lst, minFmt) THEN <<bktMin, minFmt>>
    ELSE IF Format(s.Ts, hourFmt) = Format(lst, hourFmt) THEN <<bktHour, hourFmt>>
    ELSE IF Format(s.Ts, dayFmt) = Format(lst, dayFmt) THEN <<bktDay, dayFmt>>
    ELSE <<bktMon, monFmt>>

\* the bucket addOutOfOrder picks and the layout of its keys
PickBucket(s, lst) ==
    IF Minute(s.Ts) = Minute(lst) THEN <<bktMin, minFmt>>
    ELSE IF Hour(s.Ts) = Hour(lst) THEN <<bktHour, hourFmt>>
    ELSE IF Day(s.Ts) = Day(lst) THEN <<bktDay, dayFmt>>
    ELSE <<bktMon, monFmt>>

addOutOfOrderTx(store, s, lst) ==
    LET b  == PickBucket(s, lst)
        tx == CreateBucketIfNotExists(store, b[1])
    IN  [tx EXCEPT ![b[1]] = updateVal(tx[b[1]], TimeLabel(s, b[2]), s)]

\* a trim that removes from the front of the list
RECURSIVE TrimFront(_)
TrimFront(h) == IF Len(h) > histSize THEN TrimFront(Tail(h)) ELSE h

\* hist.PushFront(s), then Remove(Back()) while the list is over histSize
RECURSIVE Trim(_)
Trim(h) == IF Len(h) > histSize THEN Trim(SubSeq(h, 1, Len(h) - 1)) ELSE h

PushFront(h, s) == <<s>> \o h

(***************************************************************************)
(* The calls.  Each is the whole method, run under the mutex.  fail says   *)
(* whether the store reports an error to the Batch of this call, walk how  *)
(* ForEach gets through a bucket the transaction has written.              *)
(***************************************************************************)
errNone    == "nil"
errNotOpen == "Database not open"
errStorage == "storage error"

Times == (wrapTime + 1)..MaxT

Payloads == {<<1, 2>>, <<2, 1>>}

Samples == {[Ts |-> t, BytesUp |-> p[1], BytesDown |-> p[2]] :
               t \in Times, p \in Payloads}

NoBytes == [up |-> 0, down |-> 0]

Snapshot == [open |-> open, hist |-> hist, last |-> last, db |-> db]

Call(name, s, T, path, err) ==
    [name |-> name, s |-> s, T |-> T, path |-> path, err |-> err]

\* the engine as NewBwDb returns it
NewEngine ==
    /\ open = TRUE
    /\ hist = <<>>
    /\ last = zeroTime
    /\ db = NoStore
    /\ op = Call("NewBwDb", NewBwSample, zeroTime, "none", errNone)
    /\ pre = [open |-> TRUE, hist |-> <<>>, last |-> zeroTime, db |-> NoStore]
    /\ pushed = <<>>
    /\ committed = <<>>
    /\ oosum = NoBytes
    /\ pure = TRUE
    /\ nops = 0

\* a call on a closed engine
Rejected(name, s, T) ==
    /\ op' = Call(name, s, T, "none", errNotOpen)
    /\ UNCHANGED <<open, hist, last, db, pushed, committed, oosum, pure>>

addOutOfOrder(name, s, fail) ==
    IF ~open
    THEN Rejected(name, s, zeroTime)
    ELSE /\ db' = IF fail THEN db ELSE addOutOfOrderTx(db, s, last)
         /\ op' = Call(name, s, zeroTime, "outoforder",
                       IF fail THEN errStorage ELSE errNone)
         /\ oosum' = IF fail THEN oosum
                     ELSE [up |-> oosum.up + s.BytesUp,
                           down |-> oosum.down + s.BytesDown]
         /\ pure' = (pure /\ fail)
         /\ UNCHANGED <<open, hist, last, pushed, committed>>

Add(s, fail, walk) ==
    /\ nops < MaxOps
    /\ nops' = nops + 1
    /\ pre' = Snapshot
    /\ IF ~open
       THEN Rejected("Add", s, zeroTime)
       ELSE IF ~After(s, last)
       THEN addOutOfOrder("Add", s, fail)
       ELSE LET lst == IF last = zeroTime THEN s.Ts ELSE last
            IN  /\ hist' = Trim(PushFront(hist, s))
                /\ db' = IF fail THEN db ELSE AddTx(db, s, lst, walk)
                /\ last' = IF fail THEN lst ELSE s.Ts
                /\ op' = Call("Add", s, zeroTime, "inorder",
                              IF fail THEN errStorage ELSE errNone)
                /\ pushed' = Append(pushed, s)
                /\ committed' = IF fail THEN committed ELSE Append(committed, s)
                /\ UNCHANGED <<open, oosum, pure>>

AddRand(s, fail) ==
    /\ nops < MaxOps
    /\ nops' = nops + 1
    /\ pre' = Snapshot
    /\ addOutOfOrder("AddRand", s, fail)

\* failAt is the shiftIfOlder batch (1, 2 or 3) the store fails, 0 for none
Rebase(ts, failAt) ==
    /\ nops < MaxOps
    /\ nops' = nops + 1
    /\ pre' = Snapshot
    /\ IF ~open
       THEN Rejected("Rebase", NewBwSample, ts)
       ELSE LET d1 == shiftIfOlder(db, bktMin, bktHour, prevHour(ts), hourFmt)
                d2 == shiftIfOlder(d1, bktHour, bktDay, prevDay(ts), dayFmt)
                d3 == shiftIfOlder(d2, bktDay, bktMon, prevMon(ts), monFmt)
            IN  /\ db' = CASE failAt = 1 -> db
                           [] failAt = 2 -> d1
                           [] failAt = 3 -> d2
                           [] OTHER      -> d3
                /\ op' = Call("Rebase", NewBwSample, ts, "none",
                              IF failAt = 0 THEN errNone ELSE errStorage)
                /\ pure' = (pure /\ failAt = 1)
                /\ UNCHANGED <<open, hist, last, pushed, committed, oosum>>

\* a purge without the check of open: on a closed engine it zeroes last and
\* the ring and the closed store refuses its batch
purgeUnchecked(fail) ==
    /\ nops < MaxOps
    /\ nops' = nops + 1
    /\ pre' = Snapshot
    /\ last' = zeroTime
    /\ hist' = <<>>
    /\ db' = IF fail \/ ~open THEN db ELSE [n \in DOMAIN db |-> EmptyBkt]
    /\ op' = Call("purge", NewBwSample, zeroTime, "none",
                  IF fail \/ ~open THEN errStorage ELSE errNone)
    /\ pushed' = <<>>
    /\ committed' = IF fail \/ ~open THEN committed ELSE <<>>
    /\ oosum' = IF fail \/ ~open THEN oosum ELSE NoBytes
    /\ pure' = ~(fail \/ ~open)
    /\ UNCHANGED open

\* a purge that empties the ring and the buckets and leaves last as it was
purgeKeepLast(fail) ==
    /\ nops < MaxOps
    /\ nops' = nops + 1
    /\ pre' = Snapshot
    /\ IF ~open
       THEN Rejected("purge", NewBwSample, zeroTime)
       ELSE /\ hist' = <<>>
            /\ db' = IF fail THEN db ELSE [n \in DOMAIN db |-> EmptyBkt]
            /\ op' = Call("purge", NewBwSample, zeroTime, "none",
                          IF fail THEN errStorage ELSE errNone)
            /\ pushed' = <<>>
            /\ committed' = IF fail THEN committed ELSE <<>>
            /\ oosum' = IF fail THEN oosum ELSE NoBytes
            /\ pure' = ~fail
            /\ UNCHANGED <<open, last>>

purge(fail) ==
    /\ nops < MaxOps
    /\ nops' = nops + 1
    /\ pre' = Snapshot
    /\ IF ~open
       THEN Rejected("purge", NewBwSample, zeroTime)
       ELSE /\ last' = zeroTime
            /\ hist' = <<>>
            /\ db' = IF fail THEN db ELSE [n \in DOMAIN db |-> EmptyBkt]
            /\ op' = Call("purge", NewBwSample, zeroTime, "none",
                          IF fail THEN errStorage ELSE errNone)
            /\ pushed' = <<>>
            /\ committed' = IF fail THEN committed ELSE <<>>
            /\ oosum' = IF fail THEN oosum ELSE NoBytes
            /\ pure' = ~fail
            /\ UNCHANGED open

Close(fail) ==
    /\ nops < MaxOps
    /\ nops' = nops + 1
    /\ pre' = Snapshot
    /\ IF ~open
       THEN Rejected("Close", NewBwSample, zeroTime)
       ELSE IF fail
       THEN /\ op' = Call("Close", NewBwSample, zeroTime, "none", errStorage)
            /\ UNCHANGED <<open, hist, last, db, pushed, committed, oosum, pure>>
       ELSE /\ hist' = <<>>
            /\ open' = FALSE
            /\ op' = Call("Close", NewBwSample, zeroTime, "none", errNone)
            /\ UNCHANGED <<last, db, pushed, committed, oosum, pure>>

errNoBucket == "Bucket does not exist"

\* what a query returns: the samples and the error
Result(set, err) == [set |-> set, err |-> err]

\* the ForEach of pullSet: the decoded values in the order of their keys
RECURSIVE pullFold(_, _)
pullFold(bkt, keys) ==
    IF keys = {} THEN <<>>
    ELSE LET k == FirstKey(keys)
         IN  <<Decode(bkt[k])>> \o pullFold(bkt, keys \ {k})

pullSet(bktName) ==
    IF ~open THEN Result(<<>>, errNotOpen)
    ELSE IF bktName \notin DOMAIN db THEN Result(<<>>, errNoBucket)
    ELSE Result(pullFold(db[bktName], DOMAIN db[bktName]), errNone)

LiveSet == IF ~open THEN Result(<<>>, errNotOpen) ELSE Result(hist, errNone)

Minutes == pullSet(bktMin)

Hours == pullSet(bktHour)

Days == pullSet(bktDay)

Months == pullSet(bktMon)

Queries == {"LiveSet", "Minutes", "Hours", "Days", "Months"}

Answer(q) ==
    CASE q = "LiveSet" -> LiveSet
      [] q = "Minutes" -> Minutes
      [] q = "Hours"   -> Hours
      [] q = "Days"    -> Days
      [] q = "Months"  -> Months

\* a call of one of the queries: it reads under the mutex and changes nothing
Query(q) ==
    /\ nops < MaxOps
    /\ nops' = nops + 1
    /\ pre' = Snapshot
    /\ op' = Call(q, NewBwSample, zeroTime, "none", Answer(q).err)
    /\ UNCHANGED <<open, hist, last, db, pushed, committed, oosum, pure>>

(***************************************************************************)
(* The sampler (Iface): two handles on the counter files of an interface   *)
(* and the cumulative counts last read.  A handle is nil, an open file, or *)
(* a file that has been closed while the field still points at it.  The    *)
(* counts are uint64; the model keeps WordBits bits of them.  What the     *)
(* files and the operating system answer is an input of each call.         *)
(***************************************************************************)
WordBits == 2

Word == 2 ^ WordBits

Counters == 0..(Word - 1)

\* tx - iface.lastSend in unsigned arithmetic
Sub64(a, b) == (a - b + Word) % Word

nil == "nil"

ErrInvalidInterface == "Interface is invalid"
ErrClosed           == "Interface Closed"
ErrInterfaceOpen    == "Interface is already open"
errFile             == "file error"

Reply(i, err) == [iface |-> i, err |-> err]

reopenInterfaces(i, openRx, openTx) ==
    IF i.fioSend # nil \/ i.fioRecv # nil THEN Reply(i, ErrInterfaceOpen)
    ELSE IF ~openRx \/ ~openTx THEN Reply(i, ErrInvalidInterface)
    ELSE Reply([i EXCEPT !.fioSend = "open", !.fioRecv = "open"], errNone)

NewIfmon(openRx, openTx) ==
    reopenInterfaces([open |-> TRUE, fioSend |-> nil, fioRecv |-> nil,
                      lastSend |-> 0, lastRecv |-> 0], openRx, openTx).iface

closeInterfaces(i) ==
    [i EXCEPT !.fioSend = nil, !.lastSend = 0, !.fioRecv = nil, !.lastRecv = 0]

\* the count read from a handle: the seek or the read fails on a handle that
\* is not an open file, or when the file answers with an error or bad data
getFioInt(fio, readOk, v) ==
    IF fio = "open" /\ readOk THEN [v |-> v, err |-> errNone]
    ELSE [v |-> 0, err |-> errFile]

\* os.File.Close: an error on a nil or closed file, or when the system says so
FileClose(fio, closeOk) ==
    IF fio = "open" /\ closeOk THEN [fio |-> "closed", err |-> errNone]
    ELSE [fio |-> IF fio = nil THEN nil ELSE "closed", err |-> errFile]

Stats(name, i, send, recv, err, path, tx, rx) ==
    [name |-> name, iface |-> i, send |-> send, recv |-> recv, err |-> err,
     path |-> path, tx |-> tx, rx |-> rx]

\* GetStats with the zero test taken out: the plain difference from last
GetStatsNoZeroTest(i, openRx, openTx, okRx, okTx, rx, tx) ==
    LET r   == IF i.fioSend = nil \/ i.fioRecv = nil
               THEN reopenInterfaces(i, openRx, openTx)
               ELSE Reply(i, errNone)
        j   == r.iface
        rxr == getFioInt(j.fioRecv, okRx, rx)
        txr == getFioInt(j.fioSend, okTx, tx)
    IN  IF r.err # errNone
        THEN Stats("GetStats", i, 0, 0, errNone, "reopen failed", 0, 0)
        ELSE IF rxr.err # errNone \/ txr.err # errNone
        THEN Stats("GetStats", closeInterfaces(j), 0, 0, errNone, "read failed", 0, 0)
        ELSE Stats("GetStats", [j EXCEPT !.lastSend = txr.v, !.lastRecv = rxr.v],
                   Sub64(txr.v, j.lastSend), Sub64(rxr.v, j.lastRecv),
                   errNone, "read", txr.v, rxr.v)

\* GetStats on the fields i: the fields after the call and what it returns
GetStats(i, openRx, openTx, okRx, okTx, rx, tx) ==
    LET r   == IF i.fioSend = nil \/ i.fioRecv = nil
               THEN reopenInterfaces(i, openRx, openTx)
               ELSE Reply(i, errNone)
        j   == r.iface
        rxr == getFioInt(j.fioRecv, okRx, rx)
        txr == getFioInt(j.fioSend, okTx, tx)
    IN  IF r.err # errNone
        THEN Stats("GetStats", i, 0, 0, errNone, "reopen failed", 0, 0)
        ELSE IF rxr.err # errNone \/ txr.err # errNone
        THEN Stats("GetStats", closeInterfaces(j), 0, 0, errNone, "read failed", 0, 0)
        ELSE Stats("GetStats", [j EXCEPT !.lastSend = txr.v, !.lastRecv = rxr.v],
                   IF j.lastSend = 0 THEN 0 ELSE Sub64(txr.v, j.lastSend),
                   IF j.lastRecv = 0 THEN 0 ELSE Sub64(rxr.v, j.lastRecv),
                   errNone, "read", txr.v, rxr.v)

\* Iface.Close on the fields i
IfaceClose(i, sendOk, recvOk) ==
    LET cs == FileClose(i.fioSend, sendOk)
        cr == FileClose(i.fioRecv, recvOk)
    IN  IF ~i.open
        THEN Stats("Close", i, 0, 0, ErrClosed, "none", 0, 0)
        ELSE IF cs.err # errNone
        THEN Stats("Close", [i EXCEPT !.fioSend = cs.fio], 0, 0, cs.err, "none", 0, 0)
        ELSE IF cr.err # errNone
        THEN Stats("Close", [i EXCEPT !.fioSend = cs.fio, !.fioRecv = cr.fio],
                   0, 0, cr.err, "none", 0, 0)
        ELSE Stats("Close", [i EXCEPT !.open = FALSE, !.fioSend = nil,
                                      !.fioRecv = nil], 0, 0, errNone, "none", 0, 0)

\* a failed read leaves the next full read to set the baseline anew
\* ("set" after that read, "used" after the full read that follows it)
Baseline(b, r) ==
    CASE r.path = "read failed"                     -> "pending"
      [] r.path = "read" /\ b = "pending"           -> "set"
      [] r.path = "read" /\ b = "set"               -> "used"
      [] r.path = "read" /\ b \notin {"pending", "set"} -> "none"
      [] OTHER                                      -> b

Returned(r) ==
    /\ iface' = r.iface
    /\ got' = r
    /\ ipre' = iface
    /\ baseline' = Baseline(baseline, r)

\* the sampler as NewIfmon returns it
NewSampler(openRx, openTx) ==
    /\ iface = NewIfmon(openRx, openTx)
    /\ got = Stats("NewIfmon", iface, 0, 0, errNone, "none", 0, 0)
    /\ ipre = iface
    /\ baseline = "none"

(***************************************************************************)
(* The live fan-out (LiveFeeder).  A subscriber is known by the id its     *)
(* registration gave it: the live websocket handler makes a new subscriber *)
(* for every connection.  A subscriber is a liveWSFeeder ("ws"), whose     *)
(* Write puts the sample on a channel of chanBufferSize places, or some    *)
(* other LiveConsumer ("any"), whose Write returns what it likes.  Go      *)
(* ranges over the map in no fixed order and a Write touches its own       *)
(* subscriber only, so the writes of one call are taken together.          *)
(***************************************************************************)
chanBufferSize == 2   \* 8 in the code
MaxSubs        == 2   \* registrations made
MaxSvc         == 4   \* calls of ServiceLiveFeeders made

Kinds == {"ws", "any"}

errInvalidType == "Invalid type"
errWrite       == "write error"
panicClosed    == "panic: send on closed channel"

\* a subscriber: ch is the channel of a liveWSFeeder, dropped counts the
\* samples it did not take, closes the calls of its Close
NewConsumer(kind) ==
    [kind |-> kind, ch |-> <<>>, closed |-> FALSE, dropped |-> 0, closes |-> 0]

Wrote(c, err) == [c |-> c, err |-> err]

\* a Write that reports an error when the channel is full
wsWriteFullIsError(c, s, typeOk) ==
    IF ~typeOk THEN Wrote(c, errInvalidType)
    ELSE IF c.closed THEN Wrote(c, panicClosed)
    ELSE IF Len(c.ch) < chanBufferSize
    THEN Wrote([c EXCEPT !.ch = Append(@, s)], errNone)
    ELSE Wrote([c EXCEPT !.dropped = @ + 1], errWrite)

\* liveWSFeeder.Write; typeOk says the sample is a *BWSample
wsWrite(c, s, typeOk) ==
    IF ~typeOk THEN Wrote(c, errInvalidType)
    ELSE IF c.closed THEN Wrote(c, panicClosed)
    ELSE IF Len(c.ch) < chanBufferSize
    THEN Wrote([c EXCEPT !.ch = Append(@, s)], errNone)
    ELSE Wrote([c EXCEPT !.dropped = @ + 1], errNone)

\* v.Write(name, s) of a subscriber; fails is what another LiveConsumer says
Write(c, s, typeOk, fails) ==
    IF c.kind = "ws" THEN wsWrite(c, s, typeOk)
    ELSE Wrote(c, IF fails THEN errWrite ELSE errNone)

\* v.Close(): liveWSFeeder closes its channel
ConsumerClose(c) == [c EXCEPT !.closed = TRUE, !.closes = @ + 1]

NoService ==
    [n |-> 0, s |-> 0, typeOk |-> TRUE, before |-> <<>>, written |-> {},
     errored |-> {}, failedBefore |-> {}, err |-> errNone]

\* the fan-out as NewLiveFeeder returns it
NewLiveFeeder ==
    /\ liveIds = 0
    /\ liveConsumers = <<>>
    /\ detached = <<>>
    /\ svc = NoService
    /\ failed = {}
    /\ lastCall = "NewLiveFeeder"

RegisterLiveFeeder(kind) ==
    /\ liveIds < MaxSubs
    /\ liveIds' = liveIds + 1
    /\ liveConsumers' = (liveIds' :> NewConsumer(kind)) @@ liveConsumers
    /\ lastCall' = "RegisterLiveFeeder"
    /\ UNCHANGED <<detached, svc, failed>>

\* a Deregister that closes the subscriber of an id that has left the map
DeregisterClosesAgain(id) ==
    /\ lastCall' = "DeregisterLiveFeeder"
    /\ IF id \in DOMAIN liveConsumers
       THEN /\ liveConsumers' =
                 [k \in (DOMAIN liveConsumers) \ {id} |-> liveConsumers[k]]
            /\ detached' = (id :> ConsumerClose(liveConsumers[id])) @@ detached
       ELSE IF id \in DOMAIN detached
       THEN /\ detached' = [detached EXCEPT ![id] = ConsumerClose(@)]
            /\ UNCHANGED liveConsumers
       ELSE UNCHANGED <<liveConsumers, detached>>
    /\ UNCHANGED <<liveIds, svc, failed>>

DeregisterLiveFeeder(id) ==
    /\ lastCall' = "DeregisterLiveFeeder"
    /\ IF id \notin DOMAIN liveConsumers
       THEN UNCHANGED <<liveConsumers, detached>>
       ELSE /\ liveConsumers' =
                 [k \in (DOMAIN liveConsumers) \ {id} |-> liveConsumers[k]]
            /\ detached' = (id :> ConsumerClose(liveConsumers[id])) @@ detached
    /\ UNCHANGED <<liveIds, svc, failed>>

\* ServiceLiveFeeders that leaves a subscriber whose Write failed in the map
ServiceKeepsFailed(s, typeOk, failing) ==
    LET ids    == DOMAIN liveConsumers
        w(id)  == Write(liveConsumers[id], s, typeOk, id \in failing)
        bad    == {id \in ids : w(id).err # errNone}
    IN  /\ svc.n < MaxSvc
        /\ liveConsumers' = [id \in ids |-> w(id).c]
        /\ UNCHANGED detached
        /\ svc' = [n |-> svc.n + 1, s |-> s, typeOk |-> typeOk,
                   before |-> liveConsumers, written |-> ids, errored |-> bad,
                   failedBefore |-> failed, err |-> errNone]
        /\ failed' = failed \cup bad
        /\ lastCall' = "ServiceLiveFeeders"
        /\ UNCHANGED liveIds

ServiceLiveFeeders(s, typeOk, failing) ==
    LET ids    == DOMAIN liveConsumers
        w(id)  == Write(liveConsumers[id], s, typeOk, id \in failing)
        bad    == {id \in ids : w(id).err # errNone}
    IN  /\ svc.n < MaxSvc
        /\ liveConsumers' = [id \in ids \ bad |-> w(id).c]
        /\ detached' = [id \in bad |-> ConsumerClose(w(id).c)] @@ detached
        /\ svc' = [n |-> svc.n + 1, s |-> s, typeOk |-> typeOk,
                   before |-> liveConsumers, written |-> ids, errored |-> bad,
                   failedBefore |-> failed, err |-> errNone]
        /\ failed' = failed \cup bad
        /\ lastCall' = "ServiceLiveFeeders"
        /\ UNCHANGED liveIds

\* the handler of a live websocket takes the next sample off its channel
Receive(id) ==
    /\ id \in DOMAIN liveConsumers
    /\ liveConsumers[id].ch # <<>>
    /\ liveConsumers' = [liveConsumers EXCEPT ![id].ch = Tail(@)]
    /\ lastCall' = "receive"
    /\ UNCHANGED <<liveIds, detached, svc, failed>>

(***************************************************************************)
(* main and its goroutines: the producer, the consumer, and main itself    *)
(* waiting for a signal.  The data queue ch has chanSize places and takes  *)
(* one update per interface and tick.  The calls into the sampler, the     *)
(* engine and the fan-out hold their own mutex only and return; what they  *)
(* do to their component is in the sections above and is left out here.    *)
(***************************************************************************)
chanSize  == 2   \* 16 in the code
NumIfaces == 2   \* len(is): the interfaces of the configuration
MaxTicks  == 2   \* the ticks the ticker delivers in a run

\* a dataUpdate; its sample is known by the number of the GetStats call
\* that produced it
dataUpdate(data, index) == [data |-> data, index |-> index]

\* what the consumer did with an update: the engine whose Add it was given
\* to, whether that Add returned an error, and whether the producer had
\* closed the queue by then
Added(v, index, err, closed) ==
    [v |-> v, index |-> index, err |-> err, closed |-> closed]

\* main at "<-sch", the goroutines started, the WaitGroup at 2
Started ==
    /\ mainPc = "signal"
    /\ prodPc = "select"
    /\ consPc = "range"
    /\ prodJ = 0
    /\ consV = dataUpdate(0, 0)
    /\ ch = <<>>
    /\ chClosed = FALSE
    /\ clClosed = FALSE
    /\ tick = FALSE
    /\ tkrStopped = FALSE
    /\ wg = 2
    /\ sent = <<>>
    /\ added = <<>>
    /\ nticks = 0

\* the ticker puts a tick on its channel, which holds one
Tick ==
    /\ MainOnly
    /\ ~tkrStopped
    /\ ~tick
    /\ nticks < MaxTicks
    /\ tick' = TRUE
    /\ nticks' = nticks + 1
    /\ UNCHANGED <<mainPc, prodPc, consPc, prodJ, consV, ch, chClosed, clClosed,
                   tkrStopped, wg, sent, added>>

\* "<-sch": a signal arrives
Signal ==
    /\ MainOnly
    /\ mainPc = "signal"
    /\ mainPc' = "close"
    /\ UNCHANGED <<prodPc, consPc, prodJ, consV, ch, chClosed, clClosed, tick,
                   tkrStopped, wg,
                   sent, added, nticks>>

\* close(closer)
CloseCloser ==
    /\ MainOnly
    /\ mainPc = "close"
    /\ clClosed' = TRUE
    /\ mainPc' = "wait"
    /\ UNCHANGED <<prodPc, consPc, prodJ, consV, ch, chClosed, tick, tkrStopped, wg,
                   sent, added, nticks>>

\* wg.Wait() returns
Wait ==
    /\ MainOnly
    /\ mainPc = "wait"
    /\ wg = 0
    /\ mainPc' = "done"
    /\ UNCHANGED <<prodPc, consPc, prodJ, consV, ch, chClosed, clClosed, tick,
                   tkrStopped, wg,
                   sent, added, nticks>>

\* a producer that leaves on the closer without closing the queue
ProducerStopKeepsQueue ==
    /\ MainOnly
    /\ prodPc = "select"
    /\ clClosed
    /\ prodPc' = "exited"
    /\ tkrStopped' = TRUE
    /\ wg' = wg - 1
    /\ UNCHANGED <<mainPc, consPc, prodJ, consV, ch, chClosed, clClosed, tick,
                   sent, added, nticks>>

\* the select takes "<-cl": break opLoop, then the deferred tkr.Stop(),
\* close(ch) and wg.Done()
ProducerStop ==
    /\ MainOnly
    /\ prodPc = "select"
    /\ clClosed
    /\ prodPc' = "exited"
    /\ tkrStopped' = TRUE
    /\ chClosed' = TRUE
    /\ wg' = wg - 1
    /\ UNCHANGED <<mainPc, consPc, prodJ, consV, ch, clClosed, tick,
                   sent, added, nticks>>

\* the select takes "<-tkr.C": the loop over the interfaces begins
ProducerTick ==
    /\ MainOnly
    /\ prodPc = "select"
    /\ tick
    /\ tick' = FALSE
    /\ prodJ' = 0
    /\ prodPc' = IF NumIfaces > 0 THEN "stats" ELSE "select"
    /\ UNCHANGED <<mainPc, consPc, consV, ch, chClosed, clClosed, tkrStopped, wg,
                   sent, added, nticks>>

\* is[j].iface.GetStats(), which returns no error, and the sample built
ProducerStats ==
    /\ MainOnly
    /\ prodPc = "stats"
    /\ prodPc' = "send"
    /\ UNCHANGED <<mainPc, consPc, prodJ, consV, ch, chClosed, clClosed, tick,
                   tkrStopped, wg,
                   sent, added, nticks>>

\* "ch <- dataUpdate{...}": waits while the queue is full
ProducerSend ==
    /\ MainOnly
    /\ prodPc = "send"
    /\ Len(ch) < chanSize
    /\ ch' = Append(ch, dataUpdate(Len(sent) + 1, prodJ))
    /\ sent' = Append(sent, dataUpdate(Len(sent) + 1, prodJ))
    /\ prodPc' = "service"
    /\ UNCHANGED <<mainPc, consPc, prodJ, consV, chClosed, clClosed, tick,
                   tkrStopped, wg, added, nticks>>

\* lf.ServiceLiveFeeders(...), which returns nil, and the next interface
ProducerService ==
    /\ MainOnly
    /\ prodPc = "service"
    /\ prodJ' = prodJ + 1
    /\ prodPc' = IF prodJ + 1 < NumIfaces THEN "stats" ELSE "select"
    /\ UNCHANGED <<mainPc, consPc, consV, ch, chClosed, clClosed, tick, tkrStopped, wg,
                   sent, added, nticks>>

\* a consumer that takes the newest update of the queue
ConsumerReceiveNewest ==
    /\ MainOnly
    /\ consPc = "range"
    /\ ch # <<>>
    /\ consV' = ch[Len(ch)]
    /\ ch' = SubSeq(ch, 1, Len(ch) - 1)
    /\ consPc' = "add"
    /\ UNCHANGED <<mainPc, prodPc, prodJ, chClosed, clClosed, tick, tkrStopped, wg,
                   sent, added, nticks>>

\* "for v := range ch" takes an update
ConsumerReceive ==
    /\ MainOnly
    /\ consPc = "range"
    /\ ch # <<>>
    /\ consV' = Head(ch)
    /\ ch' = Tail(ch)
    /\ consPc' = "add"
    /\ UNCHANGED <<mainPc, prodPc, prodJ, chClosed, clClosed, tick, tkrStopped, wg,
                   sent, added, nticks>>

\* the body of the range loop: an update whose index is out of range is
\* skipped; otherwise is[v.index].db.Add(&v.data), and the consumer goes on
\* whatever Add returns
ConsumerAdd ==
    /\ MainOnly
    /\ consPc = "add"
    /\ consPc' = "range"
    /\ IF consV.index >= NumIfaces
       THEN added' = added
       ELSE \E err \in BOOLEAN : added' = Append(added, Added(consV, consV.index, err,
                                                              chClosed))
    /\ UNCHANGED <<mainPc, prodPc, prodJ, consV, ch, chClosed, clClosed, tick,
                   tkrStopped, wg, sent, nticks>>

\* the range ends on the closed and drained queue, then the deferred wg.Done()
ConsumerExit ==
    /\ MainOnly
    /\ consPc = "range"
    /\ ch = <<>>
    /\ chClosed
    /\ consPc' = "exited"
    /\ wg' = wg - 1
    /\ UNCHANGED <<mainPc, prodPc, prodJ, consV, ch, chClosed, clClosed, tick, tkrStopped,
                   sent, added, nticks>>

(***************************************************************************)
(* The specifications.                                                     *)
(***************************************************************************)
\* the program with its components made and the interface there
Init == NewEngine /\ NewSampler(TRUE, TRUE) /\ NewLiveFeeder /\ Started

\* the sampler of an interface that may be missing when the program starts
InitIface ==
    /\ NewEngine
    /\ \E openRx, openTx \in BOOLEAN : NewSampler(openRx, openTx)
    /\ NewLiveFeeder
    /\ Started

GetStatsStep ==
    /\ \E openRx, openTx, okRx, okTx \in BOOLEAN, rx, tx \in Counters :
           Returned(GetStats(iface, openRx, openTx, okRx, okTx, rx, tx))
    /\ IfaceOnly

IfaceCloseStep ==
    /\ \E sendOk, recvOk \in BOOLEAN : Returned(IfaceClose(iface, sendOk, recvOk))
    /\ IfaceOnly

NextIface == GetStatsStep \/ IfaceCloseStep

SpecIface == InitIface /\ [][NextIface]_vars

\* the ids whose Write may fail for a reason of its own
AnyKind == {id \in DOMAIN liveConsumers : liveConsumers[id].kind = "any"}

RegisterStep ==
    /\ \E kind \in Kinds : RegisterLiveFeeder(kind)
    /\ FeederOnly

DeregisterStep ==
    /\ \E id \in 1..liveIds : DeregisterLiveFeeder(id)
    /\ FeederOnly

\* the sample of a call is known by the number of the call
ServiceStep ==
    /\ \E typeOk \in BOOLEAN, failing \in SUBSET AnyKind :
           ServiceLiveFeeders(svc.n + 1, typeOk, failing)
    /\ FeederOnly

ReceiveStep ==
    /\ \E id \in DOMAIN liveConsumers : Receive(id)
    /\ FeederOnly

NextFeeder == RegisterStep \/ DeregisterStep \/ ServiceStep \/ ReceiveStep

SpecFeeder == Init /\ [][NextFeeder]_vars

\* the calls of a producer, whose samples are *BWSample
ServiceOkStep ==
    /\ \E failing \in SUBSET AnyKind :
           ServiceLiveFeeders(svc.n + 1, TRUE, failing)
    /\ FeederOnly

NextLive == RegisterStep \/ DeregisterStep \/ ServiceOkStep \/ ReceiveStep

SpecLive == Init /\ [][NextLive]_vars

Producer ==
    ProducerStop \/ ProducerTick \/ ProducerStats \/ ProducerSend
      \/ ProducerService

Consumer == ConsumerReceive \/ ConsumerAdd \/ ConsumerExit

Controller == Signal \/ CloseCloser \/ Wait

NextMain == Tick \/ Controller \/ Producer \/ Consumer

SpecMain == Init /\ [][NextMain]_vars

\* every goroutine that can take a step gets to take one; the select of the
\* producer, which picks at random among its ready cases, does not pass over
\* the closed closer for ever
Fairness ==
    /\ WF_vars(Controller)
    /\ WF_vars(ProducerTick \/ ProducerStats \/ ProducerSend \/ ProducerService)
    /\ SF_vars(ProducerStop)
    /\ WF_vars(Consumer)

SpecMainFair == SpecMain /\ Fairness

AddStep ==
    /\ \E s \in Samples, fail \in BOOLEAN, walk \in Walks : Add(s, fail, walk)
    /\ EngineOnly

AddRandStep ==
    /\ \E s \in Samples, fail \in BOOLEAN : AddRand(s, fail)
    /\ EngineOnly

RebaseStep ==
    /\ \E ts \in Times, failAt \in 0..3 : Rebase(ts, failAt)
    /\ EngineOnly

PurgeStep ==
    /\ \E fail \in BOOLEAN : purge(fail)
    /\ EngineOnly

CloseStep ==
    /\ \E fail \in BOOLEAN : Close(fail)
    /\ EngineOnly

Next == AddStep \/ AddRandStep \/ RebaseStep \/ PurgeStep \/ CloseStep

Spec == Init /\ [][Next]_vars

QueryStep ==
    /\ \E q \in Queries : Query(q)
    /\ EngineOnly

\* every call of the engine, the queries included
NextLife ==
    AddStep \/ AddRandStep \/ RebaseStep \/ PurgeStep \/ CloseStep \/ QueryStep

SpecLife == Init /\ [][NextLife]_vars

\* Add calls only, in order or not
SpecAdd == Init /\ [][AddStep]_vars

\* the calls that touch the live ring
NextRing == AddStep \/ PurgeStep \/ CloseStep

SpecRing == Init /\ [][NextRing]_vars

\* Add and AddRand on a store that reports no error
AddOkStep ==
    /\ \E s \in Samples, walk \in Walks : Add(s, FALSE, walk)
    /\ EngineOnly

AddRandOkStep ==
    /\ \E s \in Samples : AddRand(s, FALSE)
    /\ EngineOnly

NextOutOfOrder == AddOkStep \/ AddRandOkStep

SpecOutOfOrder == Init /\ [][NextOutOfOrder]_vars

\* the calls that fill and empty the store, and the queries
NextPurge == AddStep \/ AddRandOkStep \/ PurgeStep \/ QueryStep

SpecPurge == Init /\ [][NextPurge]_vars

\* every call, before and after Close, on a store that fails only Close
RebaseOkStep ==
    /\ \E ts \in Times : Rebase(ts, 0)
    /\ EngineOnly

PurgeOkStep == purge(FALSE) /\ EngineOnly

NextClosed ==
    AddOkStep \/ AddRandOkStep \/ RebaseOkStep \/ PurgeOkStep \/ CloseStep
      \/ QueryStep

SpecClosed == Init /\ [][NextClosed]_vars

(***************************************************************************)
(* What the properties speak of.                                           *)
(***************************************************************************)
Bkt(store, n) == IF n \in DOMAIN store THEN store[n] ELSE EmptyBkt

Plus(a, b) == [up |-> a.up + b.up, down |-> a.down + b.down]

BytesOf(s) == [up |-> s.BytesUp, down |-> s.BytesDown]

Times4(a) == [up |-> 4 * a.up, down |-> 4 * a.down]

RECURSIVE SumOver(_, _)
SumOver(bkt, keys) ==
    IF keys = {} THEN NoBytes
    ELSE LET k == CHOOSE x \in keys : TRUE
         IN  Plus(BytesOf(Decode(bkt[k])), SumOver(bkt, keys \ {k}))

BktTotal(store, n) == SumOver(Bkt(store, n), DOMAIN Bkt(store, n))

Total(store) ==
    Plus(Plus(BktTotal(store, bktMin), BktTotal(store, bktHour)),
         Plus(BktTotal(store, bktDay), BktTotal(store, bktMon)))

RECURSIVE SeqSum(_)
SeqSum(seq) ==
    IF seq = <<>> THEN NoBytes ELSE Plus(BytesOf(Head(seq)), SeqSum(Tail(seq)))

\* the committed in-order samples whose label under a layout is lbl
Labelled(layout, lbl) == SelectSeq(committed, LAMBDA x : Format(x.Ts, layout) = lbl)

StartOfHour(t)  == (t \div TicksPerHour) * TicksPerHour
StartOfDay(t)   == (t \div TicksPerDay) * TicksPerDay
StartOfMonth(t) == (t \div TicksPerMonth) * TicksPerMonth

InOrderOk == op.name = "Add" /\ op.path = "inorder" /\ op.err = errNone

\* a committed in-order Add whose sample lies in another hour of last's day
HourRollover ==
    /\ InOrderOk
    /\ pure
    /\ pre.last # zeroTime
    /\ Format(op.s.Ts, hourFmt) # Format(pre.last, hourFmt)
    /\ Format(op.s.Ts, dayFmt) = Format(pre.last, dayFmt)

EndedHour == Format(pre.last, hourFmt)

\* every in-order Add before the last one fell in the hour that ended
RunInOneHour ==
    /\ Len(pushed) >= 2
    /\ \A i \in 1..(Len(pushed) - 1) : Format(pushed[i].Ts, hourFmt) = EndedHour

(***************************************************************************)
(* C1: after an in-order Add that crosses an hour boundary, the hour       *)
(* bucket's entry for the hour that ended holds exactly the sum of the     *)
(* in-order samples inserted during that hour, each counted once.          *)
(***************************************************************************)
C1_RollupConservation ==
    HourRollover =>
        /\ EndedHour \in DOMAIN Bkt(db, bktHour)
        /\ BytesOf(Decode(Bkt(db, bktHour)[EndedHour]))
             = SeqSum(Labelled(hourFmt, EndedHour))

(***************************************************************************)
(* C2: after in-order Adds that all fall in one hour H, an in-order Add of *)
(* s in a later hour H' of the same day leaves the minute bucket with      *)
(* exactly one entry, s under its minute label, and the hour bucket with   *)
(* exactly the keys H and H', the H' entry carrying exactly s's bytes.     *)
(***************************************************************************)
C2_HourRollover ==
    (HourRollover /\ RunInOneHour) =>
        /\ DOMAIN Bkt(db, bktMin) = {Format(op.s.Ts, minFmt)}
        /\ Decode(db[bktMin][Format(op.s.Ts, minFmt)]) = op.s
        /\ DOMAIN Bkt(db, bktHour) = {EndedHour, Format(op.s.Ts, hourFmt)}
        /\ BytesOf(Decode(db[bktHour][Format(op.s.Ts, hourFmt)])) = BytesOf(op.s)

C2_Witness ==
    /\ HourRollover
    /\ RunInOneHour
    /\ Len(committed) = 3
    /\ Cardinality(DOMAIN Bkt(pre.db, bktMin)) = 2

(***************************************************************************)
(* C3: for in-order Adds that all fall within one hour, the minute bucket  *)
(* holds exactly one entry per minute label among the inserted samples,    *)
(* and each entry's bytes are the sum of the samples inserted with that    *)
(* label.                                                                  *)
(***************************************************************************)
AllInOneHour ==
    /\ pure
    /\ \A i, j \in 1..Len(pushed) :
           Format(pushed[i].Ts, hourFmt) = Format(pushed[j].Ts, hourFmt)

C3_MinuteSums ==
    AllInOneHour =>
        /\ DOMAIN Bkt(db, bktMin)
             = {Format(committed[i].Ts, minFmt) : i \in 1..Len(committed)}
        /\ \A k \in DOMAIN Bkt(db, bktMin) :
               BytesOf(Decode(db[bktMin][k])) = SeqSum(Labelled(minFmt, k))

C3_Witness ==
    /\ AllInOneHour
    /\ Len(committed) = 3
    /\ Cardinality(DOMAIN Bkt(db, bktMin)) = 2
    /\ committed[1].BytesUp # committed[2].BytesUp

(***************************************************************************)
(* C4 as stated: after any sequence of in-order Adds, the bytes summed     *)
(* over the entries of all four buckets equal the bytes of the inserted    *)
(* in-order samples.                                                       *)
(***************************************************************************)
C4_TotalIsSampleSum == pure => Total(db) = SeqSum(committed)

(***************************************************************************)
(* C4 amended: after any sequence of in-order Adds, rollups included, the  *)
(* bytes summed over the entries of all four buckets equal four times the  *)
(* bytes of the inserted in-order samples (Add writes each sample into     *)
(* each of the four buckets); rollups neither lose nor duplicate bytes of  *)
(* that total.                                                             *)
(***************************************************************************)
C4_TotalIsFourfold == pure => Total(db) = Times4(SeqSum(committed))

\* three samples committed, the last across a day boundary
C4_Witness ==
    /\ pure
    /\ InOrderOk
    /\ Len(committed) = 3
    /\ Format(op.s.Ts, dayFmt) # Format(pre.last, dayFmt)
    /\ pre.last # zeroTime

(***************************************************************************)
(* C5: over any sequence of Add calls, last never decreases and, when it   *)
(* is not the zero time, it is the timestamp of the most recent in-order   *)
(* sample whose Add returned success.                                      *)
(***************************************************************************)
C5_LastIsLastSuccess ==
    /\ op.name = "Add" => last >= pre.last
    /\ last # zeroTime =>
           /\ committed # <<>>
           /\ last = committed[Len(committed)].Ts

(***************************************************************************)
(* C6: when the storage batch of an Add fails, Add returns the error, the  *)
(* store is unchanged and last is what it was before the call, the first   *)
(* insert into an engine whose last is zero included.                      *)
(***************************************************************************)
C6_FailedAddKeepsLast ==
    (op.name = "Add" /\ op.err = errStorage) =>
        /\ db = pre.db
        /\ last = pre.last

(***************************************************************************)
(* C7: the live ring never holds more than histSize samples; after N       *)
(* in-order Adds with no purge or close in between it holds the            *)
(* min(N, histSize) most recently added in-order samples, newest first.    *)
(***************************************************************************)
Min(a, b) == IF a < b THEN a ELSE b

Newest(seq, n) == [i \in 1..n |-> seq[Len(seq) - i + 1]]

C7_LiveRing ==
    /\ Len(hist) <= histSize
    /\ open => hist = Newest(pushed, Min(Len(pushed), histSize))

C7_Witness ==
    /\ Len(pushed) > histSize
    /\ Len(hist) = histSize
    /\ hist[1] = op.s
    /\ hist[1] # hist[2]

(***************************************************************************)
(* C8: AddOutOfOrder(s) on an open engine insert-or-sums s into exactly    *)
(* one bucket, picked by comparing s's clock components with last (same    *)
(* minute of the hour: min; else same hour of the day: hour; else same day *)
(* of the month: day; else mon), and leaves last, the live ring and the    *)
(* entries of the other buckets as they were, so the bytes over all        *)
(* buckets grow by exactly s's bytes.                                      *)
(***************************************************************************)
OutOfOrderOk == op.path = "outoforder" /\ op.err = errNone

Chosen ==
    CASE Minute(op.s.Ts) = Minute(pre.last) -> bktMin
      [] Minute(op.s.Ts) # Minute(pre.last) /\ Hour(op.s.Ts) = Hour(pre.last)
           -> bktHour
      [] Minute(op.s.Ts) # Minute(pre.last) /\ Hour(op.s.Ts) # Hour(pre.last)
           /\ Day(op.s.Ts) = Day(pre.last) -> bktDay
      [] OTHER -> bktMon

ChosenKey ==
    CASE Chosen = bktMin  -> <<Month(op.s.Ts), Day(op.s.Ts), Year(op.s.Ts),
                               Hour(op.s.Ts), Minute(op.s.Ts)>>
      [] Chosen = bktHour -> <<Month(op.s.Ts), Day(op.s.Ts), Year(op.s.Ts),
                               Hour(op.s.Ts)>>
      [] Chosen = bktDay  -> <<Month(op.s.Ts), Day(op.s.Ts), Year(op.s.Ts)>>
      [] OTHER            -> <<Month(op.s.Ts), Year(op.s.Ts)>>

C8_OutOfOrderFrame ==
    OutOfOrderOk =>
        /\ last = pre.last
        /\ hist = pre.hist
        /\ \A n \in BktNames \ {Chosen} : Bkt(db, n) = Bkt(pre.db, n)
        /\ DOMAIN Bkt(db, Chosen) = DOMAIN Bkt(pre.db, Chosen) \cup {ChosenKey}
        /\ \A k \in DOMAIN Bkt(pre.db, Chosen) \ {ChosenKey} :
               db[Chosen][k] = pre.db[Chosen][k]
        /\ BytesOf(Decode(db[Chosen][ChosenKey]))
             = IF ChosenKey \in DOMAIN Bkt(pre.db, Chosen)
               THEN Plus(BytesOf(Decode(pre.db[Chosen][ChosenKey])), BytesOf(op.s))
               ELSE BytesOf(op.s)
        /\ Total(db) = Plus(Total(pre.db), BytesOf(op.s))

\* a sample summed into an hour entry that an earlier Add made
C8_Witness ==
    /\ OutOfOrderOk
    /\ op.name = "AddRand"
    /\ Chosen = bktHour
    /\ ChosenKey \in DOMAIN Bkt(pre.db, bktHour)
    /\ pre.hist # <<>>

(***************************************************************************)
(* C9: after a successful Rebase(T), every entry left in the minute bucket *)
(* is at or after the start of T's hour, every entry left in the hour      *)
(* bucket at or after the start of T's day, every entry left in the day    *)
(* bucket at or after the start of T's month.                              *)
(***************************************************************************)
RebaseOk == op.name = "Rebase" /\ op.err = errNone

C9_RebaseResidency ==
    RebaseOk =>
        /\ \A k \in DOMAIN Bkt(db, bktMin) :
               Decode(db[bktMin][k]).Ts >= StartOfHour(op.T)
        /\ \A k \in DOMAIN Bkt(db, bktHour) :
               Decode(db[bktHour][k]).Ts >= StartOfDay(op.T)
        /\ \A k \in DOMAIN Bkt(db, bktDay) :
               Decode(db[bktDay][k]).Ts >= StartOfMonth(op.T)

(***************************************************************************)
(* C10: Rebase(T) moves a minute entry into the hour bucket if and only if *)
(* its timestamp is before the start of T's hour: minute entries within    *)
(* T's hour stay in the minute bucket unchanged, and likewise hour entries *)
(* within T's day and day entries within T's month.                        *)
(***************************************************************************)
Stays(n, k) == k \in DOMAIN Bkt(db, n) /\ db[n][k] = pre.db[n][k]

C10_RebaseMovesOnlyOlder ==
    RebaseOk =>
        /\ \A k \in DOMAIN Bkt(pre.db, bktMin) :
               Stays(bktMin, k)
                 <=> Decode(pre.db[bktMin][k]).Ts >= StartOfHour(op.T)
        /\ \A k \in DOMAIN Bkt(pre.db, bktHour) :
               Decode(pre.db[bktHour][k]).Ts >= StartOfDay(op.T)
                 => k \in DOMAIN Bkt(db, bktHour)
        /\ \A k \in DOMAIN Bkt(pre.db, bktDay) :
               Decode(pre.db[bktDay][k]).Ts >= StartOfMonth(op.T)
                 => k \in DOMAIN Bkt(db, bktDay)

(***************************************************************************)
(* C11 as stated: from any reachable open state, a successful purge leaves *)
(* the live ring empty, all four buckets empty and last zero, with the     *)
(* engine still open; LiveSet, Minutes, Hours, Days and Months then return *)
(* empty results without error, and a following Add of a sample with any   *)
(* timestamp is handled as an in-order insert.                             *)
(***************************************************************************)
PurgeOk == op.name = "purge" /\ op.err = errNone

NoSamples == Result(<<>>, errNone)

\* an Add on an open engine whose last is the zero time, as a purge leaves it
AddOnZeroLast == op.name = "Add" /\ pre.open /\ pre.last = zeroTime

PurgeClears ==
    /\ open
    /\ hist = <<>>
    /\ last = zeroTime
    /\ \A n \in BktNames : Bkt(db, n) = EmptyBkt
    /\ LiveSet = NoSamples
    /\ \A s \in Samples : After(s, last)

C11_PurgeQueriesEmpty ==
    /\ PurgeOk =>
          /\ PurgeClears
          /\ \A n \in BktNames : pullSet(n) = NoSamples
    /\ AddOnZeroLast => op.path = "inorder"

(***************************************************************************)
(* C11 amended: from any reachable open state, a successful purge leaves   *)
(* the live ring empty, every bucket empty and last zero, with the engine  *)
(* still open; LiveSet returns an empty result without error, each of      *)
(* Minutes, Hours, Days and Months returns an empty result without error   *)
(* if its bucket had been created before the purge and the no-bucket error *)
(* if it had not (purge creates no bucket), and a following Add of a       *)
(* sample with any timestamp is handled as an in-order insert.             *)
(***************************************************************************)
C11_PurgeEmpties ==
    /\ PurgeOk =>
          /\ PurgeClears
          /\ \A n \in BktNames :
                 pullSet(n) = IF n \in DOMAIN pre.db
                              THEN NoSamples
                              ELSE Result(<<>>, errNoBucket)
    /\ AddOnZeroLast => op.path = "inorder"

\* a purge of an engine holding entries in its four buckets and its ring
C11_Witness ==
    /\ PurgeOk
    /\ pre.last # zeroTime
    /\ pre.hist # <<>>
    /\ \A n \in BktNames : Bkt(pre.db, n) # EmptyBkt
    /\ Minutes = NoSamples

(***************************************************************************)
(* C12: once Close has succeeded, every later call of Add, AddRand,        *)
(* Rebase, LiveSet, Minutes, Hours, Days, Months, purge and Close returns  *)
(* the not-open error and changes neither the store, the ring nor last,    *)
(* and the engine stays closed whatever is called.                         *)
(***************************************************************************)
CalledClosed == nops > 0 /\ ~pre.open

C12_ClosedIsTerminal ==
    /\ CalledClosed =>
          /\ op.err = errNotOpen
          /\ db = pre.db
          /\ hist = pre.hist
          /\ last = pre.last
          /\ ~open
    /\ ~open => \A q \in Queries : Answer(q) = Result(<<>>, errNotOpen)

\* a purge on an engine closed with entries in its store and last set
C12_Witness ==
    /\ CalledClosed
    /\ op.name = "purge"
    /\ last # zeroTime
    /\ Bkt(db, bktMin) # EmptyBkt

(***************************************************************************)
(* C13: every GetStats call made while the sampler is detached (a counter  *)
(* handle is nil at entry, after a counter I/O error or after an explicit  *)
(* Close) returns (0, 0) and no error, whether or not the reopen succeeds; *)
(* GetStats returns no error in any state.                                 *)
(***************************************************************************)
Detached(i) == i.fioSend = nil \/ i.fioRecv = nil

C13_DetachedReturnsZeros ==
    got.name = "GetStats" =>
        /\ got.err = errNone
        /\ Detached(ipre) => (got.send = 0 /\ got.recv = 0)

(***************************************************************************)
(* C14 as stated: after a counter read failure has closed the handles, the *)
(* first GetStats whose reopen and both reads succeed returns (0, 0)       *)
(* whatever counts it reads and records them as the new baseline, and the  *)
(* next successful GetStats returns exactly the (unsigned) differences     *)
(* from that baseline.                                                     *)
(***************************************************************************)
\* the last call was the first full read since a failed read
FirstReadAfterFailure == got.path = "read" /\ baseline = "set"

\* the last call was the full read after that one
ReadAfterBaseline == got.path = "read" /\ baseline = "used"

SetsBaseline ==
    FirstReadAfterFailure =>
        /\ got.send = 0
        /\ got.recv = 0
        /\ got.err = errNone
        /\ iface.lastSend = got.tx
        /\ iface.lastRecv = got.rx

C14_DeltaFromBaseline ==
    /\ SetsBaseline
    /\ ReadAfterBaseline =>
          /\ got.send = Sub64(got.tx, ipre.lastSend)
          /\ got.recv = Sub64(got.rx, ipre.lastRecv)

(***************************************************************************)
(* C14 amended: after a counter read failure has closed the handles, the   *)
(* first GetStats whose reopen and both reads succeed returns (0, 0)       *)
(* whatever counts it reads and records them as the new baseline; the next *)
(* successful GetStats returns, for each counter, the unsigned difference  *)
(* from its baseline when that baseline is not 0, and 0 when it is 0.      *)
(***************************************************************************)
C14_DeltaFromNonzeroBaseline ==
    /\ SetsBaseline
    /\ ReadAfterBaseline =>
          /\ got.send = IF ipre.lastSend = 0 THEN 0
                        ELSE Sub64(got.tx, ipre.lastSend)
          /\ got.recv = IF ipre.lastRecv = 0 THEN 0
                        ELSE Sub64(got.rx, ipre.lastRecv)

\* a delta of 2 sent and 1 received over a baseline set after a failure
C14_Witness ==
    /\ ReadAfterBaseline
    /\ ipre.lastSend = 1
    /\ ipre.lastRecv = 2
    /\ got.send = 2
    /\ got.recv = 1

(***************************************************************************)
(* C15: if a subscriber's Write returns an error during a call of          *)
(* ServiceLiveFeeders, that subscriber is removed from the map and its     *)
(* Close is called within that call, no later call invokes Write on it,    *)
(* the other registered subscribers are still written to, and the call     *)
(* returns no error.                                                       *)
(***************************************************************************)
Serviced == lastCall = "ServiceLiveFeeders"

C15_FailedSubscriberDropped ==
    /\ Serviced =>
          /\ svc.err = errNone
          /\ svc.written = DOMAIN svc.before
          /\ DOMAIN liveConsumers = (DOMAIN svc.before) \ svc.errored
          /\ \A id \in svc.errored :
                 /\ id \in DOMAIN detached
                 /\ detached[id].closed
                 /\ detached[id].closes = 1
          /\ \A id \in (DOMAIN svc.before) \ svc.errored :
                 Write(svc.before[id], svc.s, svc.typeOk, FALSE)
                   = Wrote(liveConsumers[id], errNone)
    /\ svc.written \cap svc.failedBefore = {}
    /\ failed \cap DOMAIN liveConsumers = {}

\* one of two subscribers fails; the other takes the sample on its channel
C15_Witness ==
    /\ Serviced
    /\ svc.errored = {1}
    /\ svc.written = {1, 2}
    /\ detached[1].closed
    /\ liveConsumers[2].ch = <<svc.s>>

(***************************************************************************)
(* C16: a call of ServiceLiveFeeders over live websocket subscribers       *)
(* completes without waiting for a subscriber to take anything: when a     *)
(* subscriber's channel is full the sample is dropped for that subscriber  *)
(* only, its Write reports success and it stays registered; when the       *)
(* channel has room, then or later, the sample is put on it.               *)
(***************************************************************************)
WsBefore == {id \in DOMAIN svc.before : svc.before[id].kind = "ws"}

C16_FullChannelDrops ==
    /\ (Serviced /\ svc.typeOk) =>
          /\ svc.err = errNone
          /\ \A id \in WsBefore :
                 /\ id \notin svc.errored
                 /\ id \in DOMAIN liveConsumers
                 /\ liveConsumers[id].ch =
                       IF Len(svc.before[id].ch) = chanBufferSize
                       THEN svc.before[id].ch
                       ELSE Append(svc.before[id].ch, svc.s)
    /\ svc.n < MaxSvc => ENABLED ServiceOkStep

\* a subscriber that missed the third sample, its channel full, takes the
\* fourth after its handler made room; the other subscriber missed none
C16_Witness ==
    /\ Serviced
    /\ DOMAIN liveConsumers = {1, 2}
    /\ liveConsumers[1].kind = "ws"
    /\ liveConsumers[1].dropped = 1
    /\ liveConsumers[1].ch = <<2, 4>>
    /\ liveConsumers[2].kind = "ws"
    /\ liveConsumers[2].dropped = 0
    /\ liveConsumers[2].ch = <<3, 4>>

(***************************************************************************)
(* C17: once the closer channel is closed, under fair scheduling the       *)
(* producer eventually stops and closes the data queue, the consumer       *)
(* eventually exits, and main's wait on both returns, also when the queue  *)
(* is full or the producer is waiting to enqueue when the closer closes.   *)
(***************************************************************************)
AllStopped ==
    /\ prodPc = "exited"
    /\ chClosed
    /\ ch = <<>>
    /\ consPc = "exited"
    /\ wg = 0
    /\ mainPc = "done"

C17_ShutdownCompletes == clClosed ~> AllStopped

\* the closer is closed while the producer waits to enqueue on a full queue
C17_Witness ==
    /\ clClosed
    /\ mainPc = "wait"
    /\ prodPc = "send"
    /\ Len(ch) = chanSize
    /\ consPc = "add"

(***************************************************************************)
(* C18: an in-order Add that crosses a month boundary runs the hour, the   *)
(* day and the month rollup in that one call: afterwards the minute, hour  *)
(* and day buckets each hold exactly one entry, the new sample under its   *)
(* own label, and every byte those three buckets held before the call has  *)
(* been added to the month bucket under last's month label.                *)
(***************************************************************************)
MonthCrossing ==
    /\ InOrderOk
    /\ pre.last # zeroTime
    /\ Format(op.s.Ts, monFmt) # Format(pre.last, monFmt)

OnlyNewSample(n, layout) ==
    /\ DOMAIN Bkt(db, n) = {Format(op.s.Ts, layout)}
    /\ Decode(db[n][Format(op.s.Ts, layout)]) = op.s

EndedMonth == Format(pre.last, monFmt)

\* the bytes the month bucket held under last's month label before the call
HeldForEndedMonth ==
    IF EndedMonth \in DOMAIN Bkt(pre.db, bktMon)
    THEN BytesOf(Decode(pre.db[bktMon][EndedMonth]))
    ELSE NoBytes

C18_MonthCascade ==
    MonthCrossing =>
        /\ OnlyNewSample(bktMin, minFmt)
        /\ OnlyNewSample(bktHour, hourFmt)
        /\ OnlyNewSample(bktDay, dayFmt)
        /\ EndedMonth \in DOMAIN Bkt(db, bktMon)
        /\ BytesOf(Decode(db[bktMon][EndedMonth]))
             = Plus(HeldForEndedMonth,
                    Plus(BktTotal(pre.db, bktMin),
                         Plus(BktTotal(pre.db, bktHour), BktTotal(pre.db, bktDay))))

(***************************************************************************)
(* C19: on an open engine Add(s) takes the in-order path exactly when s's  *)
(* timestamp is not before last; a timestamp equal to last is in order and *)
(* s becomes the newest element of the live ring.  When the timestamp is   *)
(* before last, Add does what AddOutOfOrder(s) does: the ring and last are *)
(* left as they were and, unless the store fails, s is written to the one  *)
(* bucket AddOutOfOrder chooses, the other buckets untouched.              *)
(***************************************************************************)
AddOnOpen == op.name = "Add" /\ pre.open

BeforeLast == op.s.Ts < pre.last

C19_InOrderIffNotBefore ==
    AddOnOpen =>
        /\ (op.path = "inorder") <=> ~BeforeLast
        /\ ~BeforeLast =>
              /\ hist # <<>>
              /\ hist[1] = op.s
        /\ BeforeLast =>
              /\ op.path = "outoforder"
              /\ hist = pre.hist
              /\ last = pre.last
              /\ db = IF op.err = errNone
                      THEN addOutOfOrderTx(pre.db, op.s, pre.last)
                      ELSE pre.db
              /\ \A n \in BktNames \ {Chosen} : Bkt(db, n) = Bkt(pre.db, n)
              /\ op.err = errNone => ChosenKey \in DOMAIN Bkt(db, Chosen)

\* an Add whose timestamp equals last, pushed onto a ring that held a sample
C19_Witness ==
    /\ AddOnOpen
    /\ pre.last # zeroTime
    /\ op.s.Ts = pre.last
    /\ op.path = "inorder"
    /\ op.err = errNone
    /\ pre.hist # <<>>
    /\ hist[1] = op.s
    /\ last = op.s.Ts

\* an Add before last, summed into an entry of the hour bucket
C19_WitnessBefore ==
    /\ AddOnOpen
    /\ BeforeLast
    /\ op.err = errNone
    /\ Chosen = bktHour
    /\ ChosenKey \in DOMAIN Bkt(pre.db, bktHour)

(***************************************************************************)
(* C20: a mutating call (Add, AddOutOfOrder, Rebase, purge) that ends with *)
(* a storage error leaves the four buckets exactly as they were before the *)
(* call began.                                                             *)
(***************************************************************************)
Mutating == {"Add", "AddRand", "Rebase", "purge"}

StorageFailed == op.name \in Mutating /\ op.err = errStorage

C20_FailedCallKeepsStore ==
    StorageFailed => \A n \in BktNames : Bkt(db, n) = Bkt(pre.db, n)

\* the same for the calls that run a single batch
C20_SingleBatchKeepsStore ==
    (StorageFailed /\ op.name # "Rebase") =>
        \A n \in BktNames : Bkt(db, n) = Bkt(pre.db, n)

(***************************************************************************)
(* C21: when the hour rollup of an Add runs over an empty minute bucket,   *)
(* nothing is written to the hour bucket under the ended hour's label: an  *)
(* entry that was absent stays absent and one that was there keeps its     *)
(* value.  (Stated for an Add within the day, so that no later rollup of   *)
(* the same call moves the hour bucket's entries on.)                      *)
(***************************************************************************)
RollupOverEmptyMinutes ==
    /\ InOrderOk
    /\ pre.last # zeroTime
    /\ Format(op.s.Ts, hourFmt) # EndedHour
    /\ Format(op.s.Ts, dayFmt) = Format(pre.last, dayFmt)
    /\ DOMAIN Bkt(pre.db, bktMin) = {}

C21_EmptySourceWritesNothing ==
    RollupOverEmptyMinutes =>
        /\ EndedHour \in DOMAIN Bkt(db, bktHour)
             <=> EndedHour \in DOMAIN Bkt(pre.db, bktHour)
        /\ EndedHour \in DOMAIN Bkt(pre.db, bktHour) =>
             db[bktHour][EndedHour] = pre.db[bktHour][EndedHour]

\* the part that does hold: an entry already under the ended hour's label
\* keeps its value
C21_EmptySourceKeepsEntry ==
    (RollupOverEmptyMinutes /\ EndedHour \in DOMAIN Bkt(pre.db, bktHour)) =>
        /\ EndedHour \in DOMAIN Bkt(db, bktHour)
        /\ db[bktHour][EndedHour] = pre.db[bktHour][EndedHour]

(***************************************************************************)
(* C22: the timestamp stored in an entry is that of the latest sample that *)
(* contributed to it.  After an in-order Add that committed, s is the      *)
(* latest sample of every entry it was written to (nothing later than last *)
(* has been written), so the entry under s's label in each of the four     *)
(* buckets carries s's timestamp.                                          *)
(***************************************************************************)
LayoutOf(n) ==
    CASE n = bktMin  -> minFmt
      [] n = bktHour -> hourFmt
      [] n = bktDay  -> dayFmt
      [] OTHER       -> monFmt

StoredTs(store, n, ts) == Decode(store[n][Format(ts, LayoutOf(n))]).Ts

C22_StoredTimestampIsLatest ==
    InOrderOk =>
        \A n \in BktNames :
            /\ Format(op.s.Ts, LayoutOf(n)) \in DOMAIN Bkt(db, n)
            /\ StoredTs(db, n, op.s.Ts) = op.s.Ts

\* what the code does: an entry that was there keeps the timestamp it had,
\* a new entry takes the sample's
C22_StoredTimestampIsFirst ==
    InOrderOk =>
        \A n \in BktNames :
            /\ Format(op.s.Ts, LayoutOf(n)) \in DOMAIN Bkt(db, n)
            /\ StoredTs(db, n, op.s.Ts) <= op.s.Ts
            /\ (Format(op.s.Ts, LayoutOf(n)) \in DOMAIN Bkt(pre.db, n)
                  /\ Format(op.s.Ts, hourFmt) = Format(pre.last, hourFmt))
                 => StoredTs(db, n, op.s.Ts) = StoredTs(pre.db, n, op.s.Ts)

(***************************************************************************)
(* C23: on an open store to which nothing has been written Minutes, Hours, *)
(* Days and Months fail with the NoBucket error; after a successful write  *)
(* (Add or AddOutOfOrder) all four buckets exist and all four queries      *)
(* succeed.                                                                *)
(***************************************************************************)
BucketQueries == {"Minutes", "Hours", "Days", "Months"}

NothingWritten == committed = <<>> /\ oosum = NoBytes

Written == op.name \in {"Add", "AddRand"} /\ op.err = errNone

C23_BucketsExistAfterWrite ==
    open =>
        /\ NothingWritten => \A q \in BucketQueries : Answer(q).err = errNoBucket
        /\ Written =>
             /\ \A n \in BktNames : n \in DOMAIN db
             /\ \A q \in BucketQueries : Answer(q).err = errNone

\* what holds: no bucket before the first write; all four after an in-order
\* Add; after an out-of-order write at least the bucket it chose
C23_BucketsExistAfterAdd ==
    open =>
        /\ NothingWritten => \A q \in BucketQueries : Answer(q).err = errNoBucket
        /\ InOrderOk => \A q \in BucketQueries : Answer(q).err = errNone
        /\ OutOfOrderOk => Chosen \in DOMAIN db

(***************************************************************************)
(* C24: every delta GetStats returns is at most the cumulative value it    *)
(* has just read, also when that value is lower than the one recorded by   *)
(* the call before while the handles stayed open: the subtraction never    *)
(* reports a wrapped-around value.                                         *)
(***************************************************************************)
C24_DeltaWithinReading ==
    got.name = "GetStats" =>
        /\ got.send <= got.tx
        /\ got.recv <= got.rx

\* what holds: the bound for a counter that has not gone down since the
\* call before
C24_DeltaWithinRisingReading ==
    (got.name = "GetStats" /\ got.path = "read") =>
        /\ got.tx >= ipre.lastSend => got.send <= got.tx
        /\ got.rx >= ipre.lastRecv => got.recv <= got.rx

(***************************************************************************)
(* C25: every update the producer puts on the queue is given to the Add of *)
(* its interface's engine exactly once and in the order it was queued: the *)
(* updates given to Add so far, then the one the consumer holds, then the  *)
(* queue, are the updates queued so far; an update that follows one whose  *)
(* Add returned an error is given to Add all the same, and when the        *)
(* consumer has left, after a shutdown, every update queued has been given *)
(* to Add.                                                                 *)
(***************************************************************************)
InHand == IF consPc = "add" THEN <<consV>> ELSE <<>>

GivenToAdd == [i \in 1..Len(added) |-> added[i].v]

C25_QueuedSamplesAllAdded ==
    /\ sent = GivenToAdd \o InHand \o ch
    /\ \A i \in 1..Len(added) : added[i].index = added[i].v.index
    /\ \A i \in 1..Len(sent) : sent[i].data = i
    /\ consPc = "exited" => GivenToAdd = sent

\* the consumer has left with every update of the run given to Add; the
\* last two were given after the producer closed the queue (so one at least
\* was still queued at the shutdown), the first of them to an Add that
\* returned an error
C25_Witness ==
    /\ consPc = "exited"
    /\ clClosed
    /\ Len(added) = MaxTicks * NumIfaces
    /\ GivenToAdd = sent
    /\ added[Len(added) - 1].closed
    /\ added[Len(added) - 1].err
    /\ added[Len(added)].closed
    /\ ~added[Len(added)].err

(***************************************************************************)
(* C26: whatever the order of the Register, Deregister and Service calls,  *)
(* Close is called at most once on a subscriber and Write never on one     *)
(* that has been closed: a subscriber in the map has not been closed, one  *)
(* that has left it has been closed exactly once and is written to no      *)
(* more, and a Deregister of an id that Service removed closes nothing.    *)
(***************************************************************************)
C26_ClosedOnceNeverWritten ==
    /\ DOMAIN liveConsumers \cap DOMAIN detached = {}
    /\ DOMAIN liveConsumers \cup DOMAIN detached = 1..liveIds
    /\ \A id \in DOMAIN liveConsumers :
           /\ liveConsumers[id].closes = 0
           /\ ~liveConsumers[id].closed
    /\ \A id \in DOMAIN detached :
           /\ detached[id].closes = 1
           /\ detached[id].closed
    /\ \A id \in svc.written :
           /\ id \in DOMAIN svc.before
           /\ ~svc.before[id].closed
    /\ failed \subseteq DOMAIN detached

\* both subscribers were removed by Service, a websocket with a sample on
\* its channel among them, and the last call is a Deregister of one of them
C26_Witness ==
    /\ liveIds = MaxSubs
    /\ failed = 1..liveIds
    /\ lastCall = "DeregisterLiveFeeder"
    /\ \E id \in failed : detached[id].kind = "ws" /\ detached[id].ch # <<>>
    /\ \A id \in failed : detached[id].closes = 1

(***************************************************************************)
(* C27: in every state reached by Add, AddOutOfOrder, Rebase and purge,    *)
(* each entry of each bucket is stored under the label of its own stored   *)
(* timestamp at the bucket's resolution.                                   *)
(***************************************************************************)
KeyedByOwnTimestamp(n) ==
    \A k \in DOMAIN Bkt(db, n) : k = Format(Decode(db[n][k]).Ts, LayoutOf(n))

C27_KeyIsLabelOfTimestamp == \A n \in BktNames : KeyedByOwnTimestamp(n)

\* what holds: the minute bucket, which no rollup writes to, is keyed so
C27_MinuteKeyIsLabel == KeyedByOwnTimestamp(bktMin)

(***************************************************************************)
(* C28: an Add whose storage batch fails leaves the live ring as it was    *)
(* before the call, so the live ring holds only samples whose Add          *)
(* committed to the store.                                                 *)
(***************************************************************************)
FailedAdd == op.name = "Add" /\ op.err = errStorage

C28_FailedAddKeepsRing ==
    /\ FailedAdd => hist = pre.hist
    /\ \A i \in 1..Len(hist) : \E j \in 1..Len(committed) : committed[j] = hist[i]

\* what holds: a failed Add that took the out-of-order path leaves the ring
\* alone, one that took the in-order path has pushed its sample
C28_FailedAddPushed ==
    FailedAdd =>
        /\ op.path = "outoforder" => hist = pre.hist
        /\ op.path = "inorder" => hist = Trim(PushFront(pre.hist, op.s))

====
